---------------------------- MODULE Spec2Model ----------------------------
(***************************************************************************)
(* Model of aerostream's event filter (src/src/filter.rs): Subscribes,     *)
(* Keywords, Filter and Filters, with the operations the host calls on     *)
(* them.                                                                   *)
(*                                                                         *)
(* Representation.                                                         *)
(*   Option<T>  : None is << >>, Some(x) is <<x>>.                          *)
(*   Vec<T>     : a sequence.                                               *)
(*   String     : identifiers, handles and names are TLA+ strings (only     *)
(*                compared for equality); keyword terms and post texts are  *)
(*                sequences of characters, because str::contains looks      *)
(*                inside them.                                              *)
(*   Result<()> : "Ok" or the message given to bail!.                       *)
(***************************************************************************)
EXTENDS Integers, Sequences, FiniteSets, TLC

VARIABLES
    filters,    \* Filters.filters : Vec<Filter>
    prev,       \* Filters.filters as it was when the last call was made
    last,       \* the last call made by the host and what it returned
    snap        \* the Vec<Filter> the host holds from get_filters, if any

vars == <<filters, prev, last, snap>>

---------------------------------------------------------------------------
(* Bounds and the finite sets the inputs are drawn from.                   *)

\* Most dids and handles the registry holds in total, over all its rules.
MaxEntries == 3

Dids == {"d1", "d2"}
Handles == {"h1", "h2"}
\* Names the host passes to the registry; no configured rule is called "c".
Names == {"a", "b", "c"}

None == << >>
Some(x) == <<x>>
IsSome(o) == o # << >>
IsNone(o) == o = << >>
Unwrap(o) == o[1]

SeqsUpTo(A, n) == UNION {[1..k -> A] : k \in 0..n}
OptList(A, n) == {None} \cup {Some(l) : l \in SeqsUpTo(A, n)}
Option(A) == {None} \cup {Some(x) : x \in A}

\* Elements of a sequence.
Range(s) == {s[i] : i \in DOMAIN s}

\* s without the elements equal to x, the others in order
\* (into_iter().filter(|d| **d != x).cloned().collect()).
RECURSIVE SelectOut(_, _)
SelectOut(s, x) ==
    IF s = << >> THEN << >>
    ELSE IF Head(s) # x THEN <<Head(s)>> \o SelectOut(Tail(s), x)
         ELSE SelectOut(Tail(s), x)

\* Every Vec that collecting a HashSet can give: its elements once each, in
\* an order the hasher decides.
Orders(S) ==
    {s \in [1..Cardinality(S) -> S] : \A i, j \in 1..Cardinality(S) : s[i] = s[j] => i = j}

---------------------------------------------------------------------------
(* Subscribes                                                              *)

\* Subscribes::default with empty lists in place of unset ones.
Subscribes_default_Empty == [dids |-> Some(<< >>), handles |-> Some(<< >>)]

Subscribes_default == [dids |-> None, handles |-> None]

Subscribes_is_match(s, repo) ==
    IF IsSome(s.dids)
    THEN \E i \in DOMAIN Unwrap(s.dids) : repo = Unwrap(s.dids)[i]
    ELSE FALSE

\* Subscribes::subscribe_repo starting an unset list empty, without the did.
Subscribes_subscribe_repo_EmptyNew(s, did) ==
    IF IsSome(s.dids)
    THEN [res |-> "Ok", val |-> [s EXCEPT !.dids = Some(Append(Unwrap(s.dids), did))]]
    ELSE [res |-> "Ok", val |-> [s EXCEPT !.dids = Some(<< >>)]]

Subscribes_subscribe_repo(s, did) ==
    IF IsSome(s.dids)
    THEN [res |-> "Ok", val |-> [s EXCEPT !.dids = Some(Append(Unwrap(s.dids), did))]]
    ELSE [res |-> "Ok", val |-> [s EXCEPT !.dids = Some(<<did>>)]]

\* s without its first x.
RECURSIVE RemoveFirst(_, _)
RemoveFirst(s, x) ==
    IF s = << >> THEN << >>
    ELSE IF Head(s) = x THEN Tail(s)
         ELSE <<Head(s)>> \o RemoveFirst(Tail(s), x)

\* Subscribes::unsubscribe_repo removing one occurrence only.
Subscribes_unsubscribe_repo_RemovesFirst(s, did) ==
    IF IsSome(s.dids)
    THEN [res |-> "Ok", val |-> [s EXCEPT !.dids = Some(RemoveFirst(Unwrap(s.dids), did))]]
    ELSE [res |-> "no such did", val |-> s]

\* Subscribes::unsubscribe_repo taking an unset list for an empty one.
Subscribes_unsubscribe_repo_UnsetOk(s, did) ==
    IF IsSome(s.dids)
    THEN [res |-> "Ok", val |-> [s EXCEPT !.dids = Some(SelectOut(Unwrap(s.dids), did))]]
    ELSE [res |-> "Ok", val |-> s]

\* Subscribes::unsubscribe_repo unsetting a list it has emptied.
Subscribes_unsubscribe_repo_UnsetsEmpty(s, did) ==
    IF IsSome(s.dids)
    THEN [res |-> "Ok",
          val |-> [s EXCEPT !.dids = IF SelectOut(Unwrap(s.dids), did) = << >>
                                     THEN None
                                     ELSE Some(SelectOut(Unwrap(s.dids), did))]]
    ELSE [res |-> "no such did", val |-> s]

Subscribes_unsubscribe_repo(s, did) ==
    IF IsSome(s.dids)
    THEN [res |-> "Ok", val |-> [s EXCEPT !.dids = Some(SelectOut(Unwrap(s.dids), did))]]
    ELSE [res |-> "no such did", val |-> s]

\* Subscribes::subscribe_handle pushing onto dids instead of handles.
Subscribes_subscribe_handle_IntoDids(s, handle) ==
    IF IsSome(s.dids)
    THEN [res |-> "Ok", val |-> [s EXCEPT !.dids = Some(Append(Unwrap(s.dids), handle))]]
    ELSE [res |-> "Ok", val |-> [s EXCEPT !.dids = Some(<<handle>>)]]

Subscribes_subscribe_handle(s, handle) ==
    IF IsSome(s.handles)
    THEN [res |-> "Ok", val |-> [s EXCEPT !.handles = Some(Append(Unwrap(s.handles), handle))]]
    ELSE [res |-> "Ok", val |-> [s EXCEPT !.handles = Some(<<handle>>)]]

\* Subscribes::unsubscribe_handle failing when the list lacks the handle.
Subscribes_unsubscribe_handle_AbsentFails(s, handle) ==
    IF IsSome(s.handles) /\ \E i \in DOMAIN Unwrap(s.handles) : Unwrap(s.handles)[i] = handle
    THEN [res |-> "Ok", val |-> [s EXCEPT !.handles = Some(SelectOut(Unwrap(s.handles), handle))]]
    ELSE [res |-> "no such handle", val |-> s]

Subscribes_unsubscribe_handle(s, handle) ==
    IF IsSome(s.handles)
    THEN [res |-> "Ok", val |-> [s EXCEPT !.handles = Some(SelectOut(Unwrap(s.handles), handle))]]
    ELSE [res |-> "no such handle", val |-> s]

---------------------------------------------------------------------------
(* Keywords                                                                *)

\* str::contains taken for str::starts_with.
contains_Prefix(p, i) ==
    Len(i) <= Len(p) /\ SubSeq(p, 1, Len(i)) = i

\* str::contains(pattern): pattern occurs in p as a contiguous run.
contains(p, i) ==
    \E k \in 0..(Len(p) - Len(i)) : SubSeq(p, k + 1, k + Len(i)) = i

Keywords_includes(k, commit) ==
    IF IsNone(k.includes) THEN FALSE
    ELSE \E p \in DOMAIN commit.text :
            \E i \in DOMAIN Unwrap(k.includes) :
                contains(commit.text[p], Unwrap(k.includes)[i])

Keywords_excludes(k, commit) ==
    IF IsNone(k.excludes) THEN FALSE
    ELSE \E p \in DOMAIN commit.text :
            \E i \in DOMAIN Unwrap(k.excludes) :
                contains(commit.text[p], Unwrap(k.excludes)[i])

---------------------------------------------------------------------------
(* Filter                                                                  *)

\* What Client::get_handle answers when it gives an Err.
Unresolved == "err"
Clients == [Handles -> Dids \cup {Unresolved}]

\* converted giving up on every handle when one of them fails to resolve.
converted_AllOrNothing(handles, client) ==
    IF \E i \in DOMAIN handles : client[handles[i]] = Unresolved
    THEN {}
    ELSE {client[handles[i]] : i \in DOMAIN handles}

\* handles.iter().filter_map(|h| client.get_handle(h).ok()).collect::<HashSet<_>>()
converted(handles, client) ==
    {client[handles[i]] : i \in DOMAIN handles} \ {Unresolved}

\* Filter::init dropping the handle list once it is resolved.
Filter_init_ClearsHandles(f, client) ==
    IF IsNone(f.subscribes) THEN {f}
    ELSE LET follows == Unwrap(f.subscribes) IN
         IF IsNone(follows.handles) THEN {f}
         ELSE LET conv == converted(Unwrap(follows.handles), client)
                  dids == IF IsSome(follows.dids) THEN Range(Unwrap(follows.dids)) ELSE {}
                  union == dids \cup conv
              IN  IF union = {}
                  THEN {[f EXCEPT !.subscribes = Some([dids |-> None, handles |-> None])]}
                  ELSE {[f EXCEPT !.subscribes = Some([dids |-> Some(v), handles |-> None])]
                            : v \in Orders(union)}

\* Filter::init without the is_empty test.
Filter_init_KeepsEmpty(f, client) ==
    IF IsNone(f.subscribes) THEN {f}
    ELSE LET follows == Unwrap(f.subscribes) IN
         IF IsNone(follows.handles) THEN {f}
         ELSE LET conv == converted(Unwrap(follows.handles), client)
                  dids == IF IsSome(follows.dids) THEN Range(Unwrap(follows.dids)) ELSE {}
                  union == dids \cup conv
              IN  {[f EXCEPT !.subscribes = Some([follows EXCEPT !.dids = Some(v)])]
                       : v \in Orders(union)}

\* Filter::init replacing the dids by the converted handles.
Filter_init_DropsOld(f, client) ==
    IF IsNone(f.subscribes) THEN {f}
    ELSE LET follows == Unwrap(f.subscribes) IN
         IF IsNone(follows.handles) THEN {f}
         ELSE LET conv == converted(Unwrap(follows.handles), client)
              IN  IF conv = {}
                  THEN {[f EXCEPT !.subscribes = Some([follows EXCEPT !.dids = None])]}
                  ELSE {[f EXCEPT !.subscribes = Some([follows EXCEPT !.dids = Some(v)])]
                            : v \in Orders(conv)}

\* The filters Filter::init can leave behind (one per order of the HashSet).
Filter_init(f, client) ==
    IF IsNone(f.subscribes) THEN {f}
    ELSE LET follows == Unwrap(f.subscribes) IN
         IF IsNone(follows.handles) THEN {f}
         ELSE LET conv == converted(Unwrap(follows.handles), client)
                  dids == IF IsSome(follows.dids) THEN Range(Unwrap(follows.dids)) ELSE {}
                  union == dids \cup conv
              IN  IF union = {}
                  THEN {[f EXCEPT !.subscribes = Some([follows EXCEPT !.dids = None])]}
                  ELSE {[f EXCEPT !.subscribes = Some([follows EXCEPT !.dids = Some(v)])]
                            : v \in Orders(union)}

Filter_is_follows_match(f, commit) ==
    IF IsSome(f.subscribes) THEN Subscribes_is_match(Unwrap(f.subscribes), commit.repo)
    ELSE FALSE

Filter_is_handle_match(f, handle) ==
    IF IsSome(f.subscribes) THEN Subscribes_is_match(Unwrap(f.subscribes), handle.repo)
    ELSE FALSE

Filter_is_keywords_includes(f, commit) ==
    IF IsSome(f.keywords) THEN Keywords_includes(Unwrap(f.keywords), commit)
    ELSE FALSE

Filter_is_keywords_excludes(f, commit) ==
    IF IsSome(f.keywords) THEN Keywords_excludes(Unwrap(f.keywords), commit)
    ELSE FALSE

\* Filter::is_match with the exclude list applied to every commit.
Filter_is_match_ExcludeAll(f, event) ==
    CASE event.kind = "Commit" ->
            IF Filter_is_follows_match(f, event)
            THEN ~Filter_is_keywords_excludes(f, event)
            ELSE Filter_is_keywords_includes(f, event)
                    /\ ~Filter_is_keywords_excludes(f, event)
      [] event.kind = "Handle" -> Filter_is_handle_match(f, event)
      [] OTHER -> TRUE

\* Filter::is_match without the Payload::Handle arm.
Filter_is_match_NoHandleArm(f, event) ==
    CASE event.kind = "Commit" ->
            IF Filter_is_follows_match(f, event)
            THEN ~Filter_is_keywords_excludes(f, event)
            ELSE Filter_is_keywords_includes(f, event)
      [] OTHER -> TRUE

\* Filter::is_match dropping the events it has no rule for.
Filter_is_match_OtherDropped(f, event) ==
    CASE event.kind = "Commit" ->
            IF Filter_is_follows_match(f, event)
            THEN ~Filter_is_keywords_excludes(f, event)
            ELSE Filter_is_keywords_includes(f, event)
      [] event.kind = "Handle" -> Filter_is_handle_match(f, event)
      [] OTHER -> FALSE

Filter_is_match(f, event) ==
    CASE event.kind = "Commit" ->
            IF Filter_is_follows_match(f, event)
            THEN ~Filter_is_keywords_excludes(f, event)
            ELSE Filter_is_keywords_includes(f, event)
      [] event.kind = "Handle" -> Filter_is_handle_match(f, event)
      [] OTHER -> TRUE

Filter_subscribe_repo(f, did) ==
    LET s == IF IsNone(f.subscribes) THEN Subscribes_default ELSE Unwrap(f.subscribes)
        r == Subscribes_subscribe_repo(s, did)
    IN  [res |-> r.res, val |-> [f EXCEPT !.subscribes = Some(r.val)]]

Filter_unsubscribe_repo(f, did) ==
    IF IsNone(f.subscribes) THEN [res |-> "no such did", val |-> f]
    ELSE LET r == Subscribes_unsubscribe_repo(Unwrap(f.subscribes), did)
         IN  [res |-> r.res, val |-> [f EXCEPT !.subscribes = Some(r.val)]]

Filter_subscribe_handle(f, handle) ==
    LET s == IF IsNone(f.subscribes) THEN Subscribes_default ELSE Unwrap(f.subscribes)
        r == Subscribes_subscribe_handle(s, handle)
    IN  [res |-> r.res, val |-> [f EXCEPT !.subscribes = Some(r.val)]]

\* Filter::unsubscribe_handle creating the subscription as the subscribe
\* operations do, before it fails on the unset handle list.
Filter_unsubscribe_handle_CreatesFirst(f, handle) ==
    LET s == IF IsNone(f.subscribes) THEN Subscribes_default ELSE Unwrap(f.subscribes)
        r == Subscribes_unsubscribe_handle(s, handle)
    IN  [res |-> r.res, val |-> [f EXCEPT !.subscribes = Some(r.val)]]

Filter_unsubscribe_handle(f, handle) ==
    IF IsNone(f.subscribes) THEN [res |-> "no such handle", val |-> f]
    ELSE LET r == Subscribes_unsubscribe_handle(Unwrap(f.subscribes), handle)
         IN  [res |-> r.res, val |-> [f EXCEPT !.subscribes = Some(r.val)]]

---------------------------------------------------------------------------
(* Filters                                                                 *)

\* find taking the last rule called name instead of the first.
find_Last(fs, name) ==
    IF \E i \in DOMAIN fs : fs[i].name = name
    THEN CHOOSE i \in DOMAIN fs :
            /\ fs[i].name = name
            /\ \A j \in DOMAIN fs : fs[j].name = name => j <= i
    ELSE 0

\* find falling back on the first rule when no rule has the name.
find_OrFirst(fs, name) ==
    IF \E i \in DOMAIN fs : fs[i].name = name
    THEN CHOOSE i \in DOMAIN fs :
            /\ fs[i].name = name
            /\ \A j \in DOMAIN fs : fs[j].name = name => i <= j
    ELSE 1

\* self.filters.iter_mut().find(|f| f.name == name): the index of the first
\* rule called name, 0 when there is none.
find(fs, name) ==
    IF \E i \in DOMAIN fs : fs[i].name = name
    THEN CHOOSE i \in DOMAIN fs :
            /\ fs[i].name = name
            /\ \A j \in DOMAIN fs : fs[j].name = name => i <= j
    ELSE 0

\* Filters::init leaving the loop at the first rule without subscription.
RECURSIVE Filters_init_StopsEarly(_, _)
Filters_init_StopsEarly(fs, client) ==
    IF fs = << >> THEN {<< >>}
    ELSE IF IsNone(Head(fs).subscribes) THEN {fs}
    ELSE {<<h>> \o t : h \in Filter_init(Head(fs), client),
                       t \in Filters_init_StopsEarly(Tail(fs), client)}

\* The handles Filter::init passes to client.get_handle, in the order of the
\* calls: none when it returns early, else handles.iter().
Filter_init_queries(f) ==
    IF IsNone(f.subscribes) THEN << >>
    ELSE IF IsNone(Unwrap(f.subscribes).handles) THEN << >>
    ELSE Unwrap(Unwrap(f.subscribes).handles)

\* The get_handle calls of Filters::init from rule i on, each with the rule
\* it is made for.
RECURSIVE Filters_init_queries(_, _)
Filters_init_queries(fs, i) ==
    IF i > Len(fs) THEN << >>
    ELSE LET q == Filter_init_queries(fs[i])
         IN  [k \in 1..Len(q) |-> [rule |-> i, handle |-> q[k]]]
                 \o Filters_init_queries(fs, i + 1)

\* for filter in self.filters.iter_mut() { filter.init(client) }: every
\* registry the loop can leave behind.
RECURSIVE Filters_init(_, _)
Filters_init(fs, client) ==
    IF fs = << >> THEN {<< >>}
    ELSE {<<h>> \o t : h \in Filter_init(Head(fs), client),
                       t \in Filters_init(Tail(fs), client)}

\* Filters::get_filters giving the rules last first.
Filters_get_filters_Reversed(fs) ==
    [i \in DOMAIN fs |-> fs[Len(fs) + 1 - i]]

\* self.filters.clone(): Filter, Subscribes and Keywords own their strings
\* and vectors, so the clone shares nothing with the registry.
Filters_get_filters(fs) == fs

Filters_subscribe_repo(fs, name, did) ==
    LET i == find(fs, name) IN
    IF i = 0 THEN [res |-> "no such named filter", val |-> fs]
    ELSE LET r == Filter_subscribe_repo(fs[i], did)
         IN  [res |-> r.res, val |-> [fs EXCEPT ![i] = r.val]]

Filters_unsubscribe_repo(fs, name, did) ==
    LET i == find(fs, name) IN
    IF i = 0 THEN [res |-> "no such named filter", val |-> fs]
    ELSE LET r == Filter_unsubscribe_repo(fs[i], did)
         IN  [res |-> r.res, val |-> [fs EXCEPT ![i] = r.val]]

Filters_subscribe_handle(fs, name, handle) ==
    LET i == find(fs, name) IN
    IF i = 0 THEN [res |-> "no such named filter", val |-> fs]
    ELSE LET r == Filter_subscribe_handle(fs[i], handle)
         IN  [res |-> r.res, val |-> [fs EXCEPT ![i] = r.val]]

Filters_unsubscribe_handle(fs, name, handle) ==
    LET i == find(fs, name) IN
    IF i = 0 THEN [res |-> "no such named filter", val |-> fs]
    ELSE LET r == Filter_unsubscribe_handle(fs[i], handle)
         IN  [res |-> r.res, val |-> [fs EXCEPT ![i] = r.val]]

---------------------------------------------------------------------------
(* Configurations and events                                               *)

\* Keyword terms and post texts, as sequences of characters.
K_x == <<"x">>
K_y == <<"y">>
T_x == <<"a", "x">>
T_y == <<"y", "b">>
T_upper == <<"X">>

KeywordLists == {None, Some(<< >>), Some(<<K_x>>), Some(<<K_y>>), Some(<<K_x, K_y>>)}
KeywordsCfg == [includes : KeywordLists, excludes : KeywordLists]

\* Commit::get_post_text(): the text fragments of a commit.
Texts == {<< >>, <<T_x>>, <<T_y>>, <<T_upper>>, <<T_upper, T_x>>, <<T_x, T_y>>}

Events ==
    [kind : {"Commit"}, repo : Dids, text : Texts]
        \cup [kind : {"Handle"}, repo : Dids, text : {<< >>}]
        \cup [kind : {"Other"}, repo : {""}, text : {<< >>}]

OptLen(o) == IF IsSome(o) THEN Len(Unwrap(o)) ELSE 0

\* Number of dids and handles a rule / a registry holds.
Entries(f) ==
    IF IsSome(f.subscribes)
    THEN OptLen(Unwrap(f.subscribes).dids) + OptLen(Unwrap(f.subscribes).handles)
    ELSE 0

RECURSIVE TotalEntries(_)
TotalEntries(fs) ==
    IF fs = << >> THEN 0 ELSE Entries(Head(fs)) + TotalEntries(Tail(fs))

\* Subscribes values holding at most n entries.
SubscribesCfg(n) ==
    UNION {[dids : OptList(Dids, k), handles : OptList(Handles, n - k)] : k \in 0..n}

FilterCfg(names, kws, n) ==
    [name : names, subscribes : Option(SubscribesCfg(n)), keywords : kws]

\* A registry of one rule with any keyword set, or of two rules (the second
\* named like the first or not; the first with keywords, the second without).
OneRule == {<<f>> : f \in FilterCfg({"a"}, Option(KeywordsCfg), MaxEntries)}
FirstKeywords == {Some([includes |-> Some(<<K_x>>), excludes |-> Some(<<K_y>>)])}
TwoRules ==
    UNION {{<<f, g>> : g \in FilterCfg({"a", "b"}, {None}, MaxEntries - Entries(f))}
              : f \in FilterCfg({"a"}, FirstKeywords, MaxEntries)}

---------------------------------------------------------------------------
(* The host: it makes one call at a time and then takes the result.        *)

NoClient == [h \in Handles |-> Unresolved]
NoEvent == [kind |-> "Other", repo |-> "", text |-> << >>]
NoCall ==
    [op |-> "none", idx |-> 0, name |-> "", arg |-> "", event |-> NoEvent,
     client |-> NoClient, queries |-> << >>, res |-> "", ret |-> FALSE]

Idle == last.op = "none"

Init ==
    /\ filters \in OneRule \cup TwoRules
    /\ prev = filters
    /\ last = NoCall
    /\ snap = None

\* Filters::init(client)
Init_call(client) ==
    /\ Idle
    /\ filters' \in Filters_init(filters, client)
    /\ prev' = filters
    /\ last' = [NoCall EXCEPT !.op = "init", !.client = client, !.res = "Ok",
                              !.queries = Filters_init_queries(filters, 1)]
    /\ UNCHANGED snap

\* filter.is_match(event) on the i-th rule
IsMatch_call(i, event) ==
    /\ Idle
    /\ last' = [NoCall EXCEPT !.op = "is_match", !.idx = i, !.event = event,
                              !.ret = Filter_is_match(filters[i], event)]
    /\ prev' = filters
    /\ UNCHANGED <<filters, snap>>

\* A call of one of the four subscribe / unsubscribe operations of Filters,
\* r being what the operation gives on the registry as it is.  The model
\* lets the registry grow to MaxEntries dids and handles.
Mutation(op, name, arg, r) ==
    /\ Idle
    /\ TotalEntries(r.val) <= MaxEntries \/ TotalEntries(r.val) <= TotalEntries(filters)
    /\ filters' = r.val
    /\ prev' = filters
    /\ last' = [NoCall EXCEPT !.op = op, !.idx = find(filters, name), !.name = name,
                              !.arg = arg, !.res = r.res]
    /\ UNCHANGED snap

SubscribeRepo_call(name, did) ==
    Mutation("subscribe_repo", name, did, Filters_subscribe_repo(filters, name, did))

UnsubscribeRepo_call(name, did) ==
    Mutation("unsubscribe_repo", name, did, Filters_unsubscribe_repo(filters, name, did))

SubscribeHandle_call(name, handle) ==
    Mutation("subscribe_handle", name, handle, Filters_subscribe_handle(filters, name, handle))

UnsubscribeHandle_call(name, handle) ==
    Mutation("unsubscribe_handle", name, handle,
             Filters_unsubscribe_handle(filters, name, handle))

\* filters.get_filters(): the host now holds the returned Vec.
GetFilters_call ==
    /\ Idle
    /\ snap' = Some(Filters_get_filters(filters))
    /\ last' = [NoCall EXCEPT !.op = "get_filters", !.res = "Ok"]
    /\ prev' = filters
    /\ UNCHANGED filters

\* The host takes the result and is ready for its next call.  A Vec it got
\* from get_filters it keeps through its next call and drops after it.
Return ==
    /\ ~Idle
    /\ last' = NoCall
    /\ prev' = filters
    /\ snap' = IF last.op = "get_filters" THEN snap ELSE None
    /\ UNCHANGED filters

Next ==
    \/ \E client \in Clients : Init_call(client)
    \/ \E i \in DOMAIN filters, event \in Events : IsMatch_call(i, event)
    \/ \E name \in Names, did \in Dids : SubscribeRepo_call(name, did)
    \/ \E name \in Names, did \in Dids : UnsubscribeRepo_call(name, did)
    \/ \E name \in Names, handle \in Handles : SubscribeHandle_call(name, handle)
    \/ \E name \in Names, handle \in Handles : UnsubscribeHandle_call(name, handle)
    \/ Return

Spec == Init /\ [][Next]_vars

\* The host that takes snapshots of the registry between its init, subscribe
\* and unsubscribe calls.
NextSnapshot ==
    \/ GetFilters_call
    \/ \E client \in Clients : Init_call(client)
    \/ \E name \in Names, did \in Dids : SubscribeRepo_call(name, did)
    \/ \E name \in Names, did \in Dids : UnsubscribeRepo_call(name, did)
    \/ \E name \in Names, handle \in Handles : SubscribeHandle_call(name, handle)
    \/ \E name \in Names, handle \in Handles : UnsubscribeHandle_call(name, handle)
    \/ Return

SpecSnapshot == Init /\ [][NextSnapshot]_vars

---------------------------------------------------------------------------
(* Vocabulary of the properties                                            *)

NotFound == {"no such did", "no such handle"}
NoSuchFilter == "no such named filter"

\* x is in the rule's identifier list.
HasDid(f, x) ==
    /\ IsSome(f.subscribes)
    /\ IsSome(Unwrap(f.subscribes).dids)
    /\ x \in Range(Unwrap(Unwrap(f.subscribes).dids))

\* The rule's identifier list, and its handle list, as Options.
DidsOf(f) == IF IsSome(f.subscribes) THEN Unwrap(f.subscribes).dids ELSE None
HandlesOf(f) == IF IsSome(f.subscribes) THEN Unwrap(f.subscribes).handles ELSE None

\* Number of copies of x in a sequence.
Count(s, x) == Cardinality({i \in DOMAIN s : s[i] = x})

\* No event is matched differently by f and g.
SameMatches(f, g) ==
    f # g => \A e \in Events : Filter_is_match(f, e) = Filter_is_match(g, e)

\* The rule the last call was about, before and after it.
Before == prev[last.idx]
After == filters[last.idx]

---------------------------------------------------------------------------
(* C1 - C3: Filter::is_match                                               *)

\* C1: for a Commit event, is_match is NOT(exclude predicate) when the
\* event's repository id is in the rule's identifier list, and the include
\* predicate when it is not (no subscription and an unset list included).
C1_CommitMatch ==
    (last.op = "is_match" /\ last.event.kind = "Commit") =>
        last.ret = IF HasDid(After, last.event.repo)
                   THEN ~Filter_is_keywords_excludes(After, last.event)
                   ELSE Filter_is_keywords_includes(After, last.event)

\* A subscribed repository's commit matched although the include list, which
\* is configured, did not fire.
C1_Witness ==
    /\ last.op = "is_match"
    /\ last.event.kind = "Commit"
    /\ HasDid(After, last.event.repo)
    /\ IsSome(After.keywords)
    /\ IsSome(Unwrap(After.keywords).includes)
    /\ Unwrap(Unwrap(After.keywords).includes) # << >>
    /\ ~Filter_is_keywords_includes(After, last.event)
    /\ last.ret = TRUE

\* C2: for a HandleUpdate event, is_match is true iff the rule's identifier
\* list contains the event's repository id, whatever the rule's keyword set.
C2_HandleMatch ==
    (last.op = "is_match" /\ last.event.kind = "Handle") =>
        /\ last.ret = HasDid(After, last.event.repo)
        /\ \A k \in Option(KeywordsCfg) :
              Filter_is_match([After EXCEPT !.keywords = k], last.event) = last.ret

\* A HandleUpdate for an id the rule does not hold was not matched, on a rule
\* that has include keywords.
C2_Witness ==
    /\ last.op = "is_match"
    /\ last.event.kind = "Handle"
    /\ ~HasDid(After, last.event.repo)
    /\ IsSome(After.subscribes)
    /\ IsSome(After.keywords)
    /\ Unwrap(After.keywords).includes = Some(<<K_x>>)
    /\ last.ret = FALSE

\* C3: an event that is neither a Commit nor a HandleUpdate is matched by
\* every rule in every state of the registry.
C3_OtherMatch ==
    (last.op = "is_match" /\ last.event.kind \notin {"Commit", "Handle"}) =>
        last.ret = TRUE

\* Another event was matched by a rule with neither subscription nor keywords.
C3_Witness ==
    /\ last.op = "is_match"
    /\ last.event.kind = "Other"
    /\ IsNone(After.subscribes)
    /\ IsNone(After.keywords)
    /\ last.ret = TRUE

---------------------------------------------------------------------------
(* C4 - C6: Filter::init                                                   *)

C5_InitUnion ==
    last.op = "init" =>
        /\ last.res = "Ok"
        /\ \A i \in DOMAIN filters :
              IsSome(HandlesOf(prev[i])) =>
                  \A x \in Dids \cup {Unresolved} :
                      HasDid(filters[i], x) <=>
                          \/ HasDid(prev[i], x)
                          \/ /\ x # Unresolved
                             /\ \E k \in DOMAIN Unwrap(HandlesOf(prev[i])) :
                                   last.client[Unwrap(HandlesOf(prev[i]))[k]] = x

\* init on a rule that held an identifier and two handles, of which one
\* resolved (to another identifier) and one did not.
C5_Witness ==
    /\ last.op = "init"
    /\ \E i \in DOMAIN filters :
          /\ IsSome(HandlesOf(prev[i]))
          /\ \E k, m \in DOMAIN Unwrap(HandlesOf(prev[i])) :
                LET hs == Unwrap(HandlesOf(prev[i]))
                IN  /\ last.client[hs[k]] \in Dids
                    /\ ~HasDid(prev[i], last.client[hs[k]])
                    /\ last.client[hs[m]] = Unresolved
          /\ \E x \in Dids : HasDid(prev[i], x)
          /\ \A x \in Dids : HasDid(filters[i], x)

\* C6 as stated: after init the identifier field is never present but empty,
\* whatever the identifier list and the handle list (unset included) were.
C6_InitNeverLeavesEmpty ==
    last.op = "init" =>
        \A i \in DOMAIN filters : DidsOf(filters[i]) # Some(<< >>)

\* C6 as amended: when the rule has a handle list (empty, populated, or
\* with no handle that resolves), init never leaves the identifier field
\* present but empty; when the rule has no subscription or no handle list,
\* init leaves the rule as it was.
C6_InitUnsetsEmpty ==
    last.op = "init" =>
        \A i \in DOMAIN filters :
            /\ IsSome(HandlesOf(prev[i])) => DidsOf(filters[i]) # Some(<< >>)
            /\ IsNone(HandlesOf(prev[i])) => filters[i] = prev[i]

\* init on a rule whose identifier list was present and empty and whose
\* handles all failed to resolve: the field is now unset.
C6_Witness ==
    /\ last.op = "init"
    /\ \E i \in DOMAIN filters :
          /\ DidsOf(prev[i]) = Some(<< >>)
          /\ IsSome(HandlesOf(prev[i]))
          /\ Unwrap(HandlesOf(prev[i])) # << >>
          /\ DidsOf(filters[i]) = None

---------------------------------------------------------------------------
(* C7 - C10: subscribe and unsubscribe                                     *)

MutationOps == {"subscribe_repo", "unsubscribe_repo", "subscribe_handle", "unsubscribe_handle"}

\* No rule matches any event differently than before the last call.
MatchingUnaffected ==
    /\ DOMAIN filters = DOMAIN prev
    /\ \A j \in DOMAIN filters : SameMatches(filters[j], prev[j])

\* C7 as stated: unsubscribe_repo on a rule without subscription fails with
\* NotFound; on a rule with a subscription that lacks the id it succeeds and
\* leaves matching unaffected.
C7_UnsubscribeAbsentSucceeds ==
    (last.op = "unsubscribe_repo" /\ last.idx # 0) =>
        /\ IsNone(Before.subscribes) => last.res \in NotFound
        /\ (IsSome(Before.subscribes) /\ ~HasDid(Before, last.arg)) =>
              (last.res = "Ok" /\ MatchingUnaffected)

\* C7 as amended: unsubscribe_repo fails with NotFound on a rule without
\* subscription and on a rule whose subscription has its identifier list
\* unset; on a rule whose identifier list is present and lacks the id it
\* succeeds; in all three cases matching is unaffected.
C7_UnsubscribeAbsent ==
    (last.op = "unsubscribe_repo" /\ last.idx # 0) =>
        /\ IsNone(Before.subscribes) =>
              (last.res \in NotFound /\ MatchingUnaffected)
        /\ (IsSome(Before.subscribes) /\ IsNone(DidsOf(Before))) =>
              (last.res \in NotFound /\ MatchingUnaffected)
        /\ (IsSome(DidsOf(Before)) /\ ~HasDid(Before, last.arg)) =>
              (last.res = "Ok" /\ MatchingUnaffected)

\* unsubscribe_repo of an id the rule did not hold, from a list holding
\* another id.
C7_Witness ==
    /\ last.op = "unsubscribe_repo"
    /\ last.idx # 0
    /\ IsSome(DidsOf(Before))
    /\ Unwrap(DidsOf(Before)) # << >>
    /\ ~HasDid(Before, last.arg)
    /\ last.res = "Ok"

\* C8: subscribe_repo(x) on a rule succeeds whatever the identifier list
\* held, the subscription's is_match(x) is true after it, and an id that is
\* matched stays matched through every call but unsubscribe_repo of that id
\* on that rule.
C8_SubscribedStaysMatched ==
    /\ (last.op = "subscribe_repo" /\ last.idx # 0) =>
          /\ last.res = "Ok"
          /\ IsSome(After.subscribes)
          /\ Subscribes_is_match(Unwrap(After.subscribes), last.arg)
    /\ \A i \in DOMAIN prev : \A x \in Dids :
          (/\ HasDid(prev[i], x)
           /\ ~(last.op = "unsubscribe_repo" /\ last.idx = i /\ last.arg = x)) =>
              /\ i \in DOMAIN filters
              /\ IsSome(filters[i].subscribes)
              /\ Subscribes_is_match(Unwrap(filters[i].subscribes), x)

\* subscribe_repo on a rule that had no subscription at all.
C8_Witness ==
    /\ last.op = "subscribe_repo"
    /\ last.idx # 0
    /\ IsNone(Before.subscribes)
    /\ last.res = "Ok"
    /\ HasDid(After, last.arg)

\* fs is a registry as subscribe_repo(name, x) leaves it.
AfterSubscribe(fs, name, x) ==
    LET i == find(fs, name) IN
    /\ i # 0
    /\ IsSome(DidsOf(fs[i]))
    /\ Unwrap(DidsOf(fs[i])) # << >>
    /\ Unwrap(DidsOf(fs[i]))[Len(Unwrap(DidsOf(fs[i])))] = x

\* C9: subscribe_repo(name, id) followed by unsubscribe_repo(name, id) both
\* succeed and leave id out of the rule's identifier list, however many
\* copies of id the list held.
C9_RoundTrip ==
    /\ (last.op = "subscribe_repo" /\ last.idx # 0) =>
          /\ last.res = "Ok"
          /\ AfterSubscribe(filters, last.name, last.arg)
          /\ LET r == Filters_unsubscribe_repo(filters, last.name, last.arg)
             IN  r.res = "Ok" /\ ~HasDid(r.val[last.idx], last.arg)
    /\ (/\ last.op = "unsubscribe_repo"
        /\ last.idx # 0
        /\ AfterSubscribe(prev, last.name, last.arg)) =>
          (last.res = "Ok" /\ ~HasDid(After, last.arg))

\* unsubscribe_repo of an id on a registry as subscribe_repo of that id
\* leaves it, the list holding several copies of the id.
C9_Witness ==
    /\ last.op = "unsubscribe_repo"
    /\ AfterSubscribe(prev, last.name, last.arg)
    /\ Count(Unwrap(DidsOf(Before)), last.arg) >= 2
    /\ last.res = "Ok"
    /\ ~HasDid(After, last.arg)

\* C10: subscribe_repo, unsubscribe_repo, subscribe_handle and
\* unsubscribe_handle with a name no rule has return NoSuchFilter and leave
\* every rule unchanged.
C10_NoSuchFilter ==
    (/\ last.op \in MutationOps
     /\ \A i \in DOMAIN prev : prev[i].name # last.name) =>
        (last.res = NoSuchFilter /\ filters = prev)

\* unsubscribe_handle with a name no rule has, on a registry with a rule
\* that holds the handle.
C10_Witness ==
    /\ last.op = "unsubscribe_handle"
    /\ \A i \in DOMAIN prev : prev[i].name # last.name
    /\ \E i \in DOMAIN prev :
          /\ IsSome(HandlesOf(prev[i]))
          /\ last.arg \in Range(Unwrap(HandlesOf(prev[i])))
    /\ last.res = NoSuchFilter

---------------------------------------------------------------------------
(* C11 - C20                                                               *)

\* Rule j of the registry as it was is the first one called name.
FirstNamed(j, name) ==
    /\ prev[j].name = name
    /\ \A k \in DOMAIN prev : k < j => prev[k].name # name

\* C11: a subscribe / unsubscribe call by name changes no rule but the first
\* one in sequence order that has the name (a later rule of the same name
\* included), keeps the number and order of the rules and every rule's name
\* and keyword set, and a successful subscribe does change that first rule.
C11_FirstMatchOnly ==
    last.op \in MutationOps =>
        /\ DOMAIN filters = DOMAIN prev
        /\ \A j \in DOMAIN prev :
              /\ filters[j].name = prev[j].name
              /\ filters[j].keywords = prev[j].keywords
              /\ ~FirstNamed(j, last.name) => filters[j] = prev[j]
              /\ (/\ FirstNamed(j, last.name)
                  /\ last.op \in {"subscribe_repo", "subscribe_handle"}) =>
                    (last.res = "Ok" /\ filters[j] # prev[j])

\* subscribe_repo by a name two rules have: the first changed, the second,
\* which held the same as the first, did not.
C11_Witness ==
    /\ last.op = "subscribe_repo"
    /\ Len(prev) = 2
    /\ prev[1].name = last.name
    /\ prev[2].name = last.name
    /\ prev[1].subscribes = prev[2].subscribes
    /\ filters[1] # prev[1]
    /\ filters[2] = prev[2]

\* C12: get_filters returns the rules in registry order with the content the
\* registry has at the call and leaves the registry unchanged; a Vec it
\* returned earlier still holds that content after a later init, subscribe
\* or unsubscribe call.
C12_Snapshot ==
    /\ last.op = "get_filters" =>
          /\ filters = prev
          /\ IsSome(snap)
          /\ Len(Unwrap(snap)) = Len(prev)
          /\ \A i \in DOMAIN prev : Unwrap(snap)[i] = prev[i]
    /\ (IsSome(snap) /\ last.op # "get_filters") => Unwrap(snap) = prev

\* The host holds a snapshot of two rules, last first different from first
\* last, and a later call has changed the registry.
C12_Witness ==
    /\ IsSome(snap)
    /\ last.op \in MutationOps \cup {"init"}
    /\ Len(prev) = 2
    /\ prev[1].subscribes # prev[2].subscribes
    /\ filters # prev
    /\ Unwrap(snap) = prev

\* The handles queried for rule i by the last init, in the order of the calls.
QueriedFor(i) ==
    LET at == {k \in DOMAIN last.queries : last.queries[k].rule = i}
        nth(n) == CHOOSE k \in at : Cardinality({m \in at : m <= k}) = n
    IN  [n \in 1..Cardinality(at) |-> last.queries[nth(n)].handle]

\* C13: Filters::init always returns, and initializes every rule once in
\* sequence order: the handles are resolved rule after rule, each handle
\* list once, and every rule is left as one Filter::init leaves it, also a
\* rule that comes after a rule with no subscription, with no handle list or
\* with handles that all fail to resolve.
C13_InitEveryRule ==
    /\ Idle => \A client \in Clients : Filters_init(filters, client) # {}
    /\ last.op = "init" =>
          /\ last.res = "Ok"
          /\ DOMAIN filters = DOMAIN prev
          /\ \A i \in DOMAIN prev : filters[i] \in Filter_init(prev[i], last.client)
          /\ \A k, m \in DOMAIN last.queries :
                k <= m => last.queries[k].rule <= last.queries[m].rule
          /\ \A k \in DOMAIN last.queries : last.queries[k].rule \in DOMAIN prev
          /\ \A i \in DOMAIN prev :
                QueriedFor(i) = IF IsSome(HandlesOf(prev[i]))
                                THEN Unwrap(HandlesOf(prev[i])) ELSE << >>

\* init on two rules: the first has no subscription, the second got an
\* identifier from one of its handles.
C13_Witness ==
    /\ last.op = "init"
    /\ Len(prev) = 2
    /\ IsNone(prev[1].subscribes)
    /\ \E x \in Dids : ~HasDid(prev[2], x) /\ HasDid(filters[2], x)
    /\ last.queries # << >>

\* The list an Option holds, the empty one when unset.
ListOf(o) == IF IsSome(o) THEN Unwrap(o) ELSE << >>

\* new is old without its x: as long as old less the copies of x, and its
\* n-th element is the n-th element of old that is not x.
Without(old, x, new) ==
    LET kept == {k \in DOMAIN old : old[k] # x}
        nth(n) == CHOOSE k \in kept : Cardinality({m \in kept : m <= k}) = n
    IN  /\ Len(new) = Cardinality(kept)
        /\ \A n \in DOMAIN new : new[n] = old[nth(n)]

\* C14: subscribe_repo and subscribe_handle on a rule that exists never
\* fail; they create the subscription and the list when absent and add the
\* value at the end; subscribe_repo leaves the handle list as it was (unset
\* on a rule without subscription) and subscribe_handle the identifier list.
C14_SubscribeCreates ==
    /\ (last.op = "subscribe_repo" /\ last.idx # 0) =>
          /\ last.res = "Ok"
          /\ IsSome(After.subscribes)
          /\ DidsOf(After) = Some(Append(ListOf(DidsOf(Before)), last.arg))
          /\ HandlesOf(After) = HandlesOf(Before)
    /\ (last.op = "subscribe_handle" /\ last.idx # 0) =>
          /\ last.res = "Ok"
          /\ IsSome(After.subscribes)
          /\ HandlesOf(After) = Some(Append(ListOf(HandlesOf(Before)), last.arg))
          /\ DidsOf(After) = DidsOf(Before)

\* The first subscribe_handle on a rule without subscription: the rule now
\* has a subscription with that handle and an unset identifier list.
C14_Witness ==
    /\ last.op = "subscribe_handle"
    /\ last.idx # 0
    /\ IsNone(Before.subscribes)
    /\ After.subscribes = Some([dids |-> None, handles |-> Some(<<last.arg>>)])

\* C15: unsubscribe_repo of id on a rule whose identifier list is present
\* succeeds and removes every copy of id and nothing else: the other
\* identifiers keep their order, the list stays present (empty if need be)
\* and the handle list is as it was; with the list unset it fails with
\* NotFound.
C15_RemoveIdentifier ==
    (last.op = "unsubscribe_repo" /\ last.idx # 0) =>
        /\ IsSome(DidsOf(Before)) =>
              /\ last.res = "Ok"
              /\ IsSome(DidsOf(After))
              /\ Without(Unwrap(DidsOf(Before)), last.arg, Unwrap(DidsOf(After)))
              /\ HandlesOf(After) = HandlesOf(Before)
        /\ IsNone(DidsOf(Before)) => last.res \in NotFound
        /\ last.res \in NotFound => IsNone(DidsOf(Before))

\* unsubscribe_repo emptied a list that held nothing but the id.
C15_Witness ==
    /\ last.op = "unsubscribe_repo"
    /\ last.idx # 0
    /\ IsSome(DidsOf(Before))
    /\ Unwrap(DidsOf(Before)) # << >>
    /\ DidsOf(After) = Some(<< >>)
    /\ last.res = "Ok"

\* C16: unsubscribe_handle fails with NotFound iff the handle list is unset;
\* when it succeeds it removes every copy of the handle and nothing else;
\* subscribe_handle appends the handle, creating the list when it is unset.
C16_HandleOperations ==
    /\ (last.op = "unsubscribe_handle" /\ last.idx # 0) =>
          /\ last.res \in NotFound <=> IsNone(HandlesOf(Before))
          /\ last.res = "Ok" <=> IsSome(HandlesOf(Before))
          /\ last.res = "Ok" =>
                /\ IsSome(HandlesOf(After))
                /\ Without(Unwrap(HandlesOf(Before)), last.arg, Unwrap(HandlesOf(After)))
                /\ DidsOf(After) = DidsOf(Before)
    /\ (last.op = "subscribe_handle" /\ last.idx # 0) =>
          HandlesOf(After) = Some(Append(ListOf(HandlesOf(Before)), last.arg))

\* unsubscribe_handle of a handle that a populated list lacks: success, and
\* the list is as it was.
C16_Witness ==
    /\ last.op = "unsubscribe_handle"
    /\ last.idx # 0
    /\ IsSome(HandlesOf(Before))
    /\ Unwrap(HandlesOf(Before)) # << >>
    /\ last.arg \notin Range(Unwrap(HandlesOf(Before)))
    /\ last.res = "Ok"
    /\ HandlesOf(After) = HandlesOf(Before)

\* term occurs in fragment: some run of characters of fragment is term.
Occurs(term, fragment) ==
    \E a \in 0..Len(fragment) :
        /\ a + Len(term) <= Len(fragment)
        /\ \A k \in 1..Len(term) : fragment[a + k] = term[k]

\* Some fragment of the commit holds some term of the keyword list, which is
\* present.
Fires(list, commit) ==
    /\ IsSome(list)
    /\ \E t \in Range(Unwrap(list)) : \E p \in Range(commit.text) : Occurs(t, p)

\* C17: on a commit, the include predicate is true iff the rule has a
\* keyword set with an includes list of which at least one term occurs in at
\* least one text fragment, the exclude predicate likewise over the excludes
\* list (so an absent list, an empty list, no keyword set and no fragment
\* each give false), and these are the predicates is_match answers with.
C17_KeywordPredicates ==
    (last.op = "is_match" /\ last.event.kind = "Commit") =>
        LET inc == IsSome(After.keywords) /\ Fires(Unwrap(After.keywords).includes, last.event)
            exc == IsSome(After.keywords) /\ Fires(Unwrap(After.keywords).excludes, last.event)
        IN  /\ Filter_is_keywords_includes(After, last.event) = inc
            /\ Filter_is_keywords_excludes(After, last.event) = exc
            /\ last.ret = IF HasDid(After, last.event.repo) THEN ~exc ELSE inc
            /\ (IsNone(After.keywords) \/ last.event.text = << >>) => (~inc /\ ~exc)
            /\ (IsSome(After.keywords)
                    /\ Unwrap(After.keywords).includes \in {None, Some(<< >>)}) => ~inc
            /\ (IsSome(After.keywords)
                    /\ Unwrap(After.keywords).excludes \in {None, Some(<< >>)}) => ~exc

\* A commit of an unsubscribed repository matched through the second term of
\* the includes list, found inside the second fragment.
C17_Witness ==
    /\ last.op = "is_match"
    /\ last.event.kind = "Commit"
    /\ ~HasDid(After, last.event.repo)
    /\ IsSome(After.keywords)
    /\ Unwrap(After.keywords).includes = Some(<<K_x, K_y>>)
    /\ last.event.text = <<T_upper, T_x>>
    /\ last.ret = TRUE

\* C18: subscribe_handle and unsubscribe_handle leave every identifier list
\* and the match result of every event as they were: handles are not
\* consulted for matching.
C18_HandlesNotMatched ==
    last.op \in {"subscribe_handle", "unsubscribe_handle"} =>
        /\ MatchingUnaffected
        /\ \A j \in DOMAIN prev : DidsOf(filters[j]) = DidsOf(prev[j])

\* unsubscribe_handle removed a handle from a rule that holds identifiers:
\* the identifiers are still there and still matched.
C18_Witness ==
    /\ last.op = "unsubscribe_handle"
    /\ last.idx # 0
    /\ last.res = "Ok"
    /\ HandlesOf(After) # HandlesOf(Before)
    /\ \E x \in Dids :
          /\ HasDid(After, x)
          /\ Filter_is_match(After, [kind |-> "Handle", repo |-> x, text |-> << >>])

\* C19: a subscribe / unsubscribe call that returns an error leaves the
\* whole registry as it was.
C19_ErrorsChangeNothing ==
    (last.op \in MutationOps /\ last.res # "Ok") => filters = prev

\* unsubscribe_handle failed with NotFound on a rule without subscription,
\* which still has none.
C19_Witness ==
    /\ last.op = "unsubscribe_handle"
    /\ last.idx # 0
    /\ IsNone(Before.subscribes)
    /\ last.res \in NotFound
    /\ IsNone(After.subscribes)

\* f and g match the same identifiers and agree on the identifier field
\* being set.
SameIdentifiers(f, g) ==
    /\ Range(ListOf(DidsOf(f))) = Range(ListOf(DidsOf(g)))
    /\ IsSome(DidsOf(f)) <=> IsSome(DidsOf(g))

\* C20: with the same answers of the directory client, a second init right
\* after an init leaves every rule with the identifiers, and the set or unset
\* identifier field, the first one left; and init removes no identifier.
C20_InitIdempotent ==
    last.op = "init" =>
        /\ \A i \in DOMAIN prev : \A x \in Dids : HasDid(prev[i], x) => HasDid(filters[i], x)
        /\ \A again \in Filters_init(filters, last.client) :
              /\ DOMAIN again = DOMAIN filters
              /\ \A i \in DOMAIN filters : SameIdentifiers(again[i], filters[i])
        /\ (\A i \in DOMAIN prev : prev[i] \in Filter_init(prev[i], last.client)) =>
              \A i \in DOMAIN prev : SameIdentifiers(filters[i], prev[i])

\* An init with the answers that an init before it could have had: the
\* registry was as an init leaves it, with a rule holding an identifier
\* besides the one its handle resolves to.
C20_Witness ==
    /\ last.op = "init"
    /\ \A i \in DOMAIN prev : prev[i] \in Filter_init(prev[i], last.client)
    /\ \E i \in DOMAIN prev :
          /\ IsSome(HandlesOf(prev[i]))
          /\ \E k \in DOMAIN Unwrap(HandlesOf(prev[i])) :
                last.client[Unwrap(HandlesOf(prev[i]))[k]] \in Dids
          /\ \A x \in Dids : HasDid(filters[i], x)

===========================================================================
